---------------------------- MODULE Spec2Model ----------------------------
(***************************************************************************)
(* convmag: conversion between magnetic units.                             *)
(*                                                                         *)
(* Model of src/src/convmag/convmag_functions.py (the conversion table,    *)
(* the prefix table, convert_unit, calculate_unitcell_volume,              *)
(* muB_per_fu_to_Tesla, Tesla_to_muB_per_fu) and of the interactive loop   *)
(* of src/src/convmag/main.py.                                             *)
(*                                                                         *)
(* Numbers.  A Python float is modelled by the real number it stands for,  *)
(* written exactly as                                                      *)
(*        (n / d) * 10^e * MU_0^m0 * MU_B^mb                               *)
(* in the normal form: gcd(n, d) = 1, d > 0 coprime to 10, 10 does not     *)
(* divide n, and the number zero is <0/1, 0, 0, 0>.  Rounding of the       *)
(* binary floating point format is not modelled, so equality of two        *)
(* modelled numbers is equality "up to floating-point tolerance".          *)
(*                                                                         *)
(* Strings are TLA+ strings; s[0] is SubSeq(s, 1, 1), s[1:] is             *)
(* SubSeq(s, 2, Len(s)).                                                   *)
(***************************************************************************)
EXTENDS Integers, Sequences, FiniteSets, TLC

---------------------------------------------------------------------------
(* Bounds of the model                                                     *)

\* scalar inputs are k * 10^j with k in -MaxNum..MaxNum
MaxNum == 2

\* arrays passed to convert_unit have 1..MaxLen elements
MaxLen == 3

\* lattice parameters a, b, c range over 1..MaxLattice
MaxLattice == 2

\* formula units per cell range over 0..MaxFu
MaxFu == 2

---------------------------------------------------------------------------
(* Exact arithmetic                                                        *)

Abs(i) == IF i < 0 THEN -i ELSE i

RECURSIVE GCD(_, _)
GCD(i, j) == IF j = 0 THEN i ELSE GCD(j, i % j)

RECURSIVE Pow10(_)
Pow10(k) == IF k = 0 THEN 1 ELSE 10 * Pow10(k - 1)

Zero == [n |-> 0, d |-> 1, e |-> 0, m0 |-> 0, mb |-> 0]

\* move the factors 2 and 5 of the denominator and the factors 10 of the
\* numerator into the power of ten
RECURSIVE Reduce(_, _, _, _, _)
Reduce(n, d, e, m0, mb) ==
    IF d % 2 = 0 THEN Reduce(n * 5, d \div 2, e - 1, m0, mb)
    ELSE IF d % 5 = 0 THEN Reduce(n * 2, d \div 5, e - 1, m0, mb)
    ELSE IF n % 10 = 0 THEN Reduce(n \div 10, d, e + 1, m0, mb)
    ELSE [n |-> n, d |-> d, e |-> e, m0 |-> m0, mb |-> mb]

Norm(n, d, e, m0, mb) ==
    IF n = 0 THEN Zero
    ELSE Reduce(n \div GCD(Abs(n), d), d \div GCD(Abs(n), d), e, m0, mb)

\* the float k * 10^j
Num(k, j) == Norm(k, 1, j, 0, 0)

One == Num(1, 0)

Mul(x, y) == Norm(x.n * y.n, x.d * y.d, x.e + y.e, x.m0 + y.m0, x.mb + y.mb)

\* Recip that leaves its argument as it is
RecipNotTaken(y) == y

\* 1 / y, for y # 0
Recip(y) == IF y.n < 0
            THEN Norm(-y.d, -y.n, -y.e, -y.m0, -y.mb)
            ELSE Norm(y.d, y.n, -y.e, -y.m0, -y.mb)

Div(x, y) == Mul(x, Recip(y))

---------------------------------------------------------------------------
(* Constants of the module                                                 *)

\* MU_0 = 4 * 3.14159 * 1e-7, MU_B = 9.274015e-24: kept symbolic
MU_0 == [n |-> 1, d |-> 1, e |-> 0, m0 |-> 1, mb |-> 0]
MU_B == [n |-> 1, d |-> 1, e |-> 0, m0 |-> 0, mb |-> 1]

\* the decimal digits of the two constants: MU_0 = MU_0_digits * 10^MU_0_exp
MU_0_digits == 1256636
MU_0_exp == -12
MU_B_digits == 9274015
MU_B_exp == -30

\* convmag_items with the entry A/m_Oe a factor of ten too small
convmag_itemsOerstedTenth ==
    << <<"T_G",            "1e4">>,
       <<"T_Oe",           "1e4">>,
       <<"A/m_T",          "MU_0">>,
       <<"A/m_G",          "1e4 * MU_0">>,
       <<"G_Oe",           "1">>,
       <<"A/m_Oe",         "1e3 * MU_0">>,
       <<"emu/cm^3_T",     "1e3 * MU_0">>,
       <<"erg/Oecm^3_A/m", "1e3">>,
       <<"emu/g_Am^2/kg",  "1">>,
       <<"J/m^3_GOe",      "1e8 * MU_0">>,
       <<"J/m^3_erg/cm^3", "1e1">>,
       <<"erg/cm^3_GOe",   "1e7 * MU_0">>,
       <<"Am^2_emu",       "1e3">>,
       <<"Am^2_erg/G",     "1e3">>,
       <<"Am^2_erg/Oe",    "1e3">>,
       <<"emu_erg/G",      "1">>,
       <<"muB_Am^2",       "MU_B">>,
       <<"muB_emu",        "1e3 * MU_B">> >>

\* the dict literal, in the order it is written
convmag_items ==
    << <<"T_G",            "1e4">>,
       <<"T_Oe",           "1e4">>,
       <<"A/m_T",          "MU_0">>,
       <<"A/m_G",          "1e4 * MU_0">>,
       <<"G_Oe",           "1">>,
       <<"A/m_Oe",         "1e4 * MU_0">>,
       <<"emu/cm^3_T",     "1e3 * MU_0">>,
       <<"erg/Oecm^3_A/m", "1e3">>,
       <<"emu/g_Am^2/kg",  "1">>,
       <<"J/m^3_GOe",      "1e8 * MU_0">>,
       <<"J/m^3_erg/cm^3", "1e1">>,
       <<"erg/cm^3_GOe",   "1e7 * MU_0">>,
       <<"Am^2_emu",       "1e3">>,
       <<"Am^2_erg/G",     "1e3">>,
       <<"Am^2_erg/Oe",    "1e3">>,
       <<"emu_erg/G",      "1">>,
       <<"muB_Am^2",       "MU_B">>,
       <<"muB_emu",        "1e3 * MU_B">> >>

\* the dict: a key written twice keeps the value written last
convmag ==
    [k \in {convmag_items[i][1] : i \in DOMAIN convmag_items} |->
       LET last == CHOOSE i \in DOMAIN convmag_items :
                      /\ convmag_items[i][1] = k
                      /\ \A j \in DOMAIN convmag_items :
                            convmag_items[j][1] = k => j <= i
       IN  convmag_items[last][2]]

\* factors with the exponent of milli written without its sign
factorsMilliUnsigned ==
    [p \in {"M", "k", "m", "µ"} |->
       CASE p = "M" -> "1e6"
         [] p = "k" -> "1e3"
         [] p = "m" -> "1e3"
         [] p = "µ" -> "1e-6"]

\* the dict literal, in the order it is written
factors_items ==
    << <<"M", "1e6">>, <<"k", "1e3">>, <<"m", "1e-3">>, <<"µ", "1e-6">> >>

factors ==
    [p \in {factors_items[i][1] : i \in DOMAIN factors_items} |->
       LET last == CHOOSE i \in DOMAIN factors_items :
                      /\ factors_items[i][1] = p
                      /\ \A j \in DOMAIN factors_items :
                            factors_items[j][1] = p => j <= i
       IN  factors_items[last][2]]

---------------------------------------------------------------------------
(* Strings                                                                 *)

Char(s, i) == SubSeq(s, i, i)

\* position of the first occurrence of sep in s at or after i, 0 if none
RECURSIVE Find(_, _, _)
Find(s, sep, i) ==
    IF i + Len(sep) - 1 > Len(s) THEN 0
    ELSE IF SubSeq(s, i, i + Len(sep) - 1) = sep THEN i
    ELSE Find(s, sep, i + 1)

\* str.split(sep): the sequence of the pieces of s between the separators
RECURSIVE Split(_, _)
Split(s, sep) ==
    LET i == Find(s, sep, 1)
    IN  IF i = 0 THEN <<s>>
        ELSE <<SubSeq(s, 1, i - 1)>>
               \o Split(SubSeq(s, i + Len(sep), Len(s)), sep)

Range(f) == {f[i] : i \in DOMAIN f}

units == UNION {Range(Split(k, "_")) : k \in DOMAIN convmag}

\* the list f"{k} ({factors[k]})", in the order of the keys of factors
prefactors ==
    [i \in DOMAIN factors_items |->
       factors_items[i][1] \o " (" \o factors[factors_items[i][1]] \o ")"]

---------------------------------------------------------------------------
(* eval() of the factor expressions                                        *)

Digit(c) ==
    CASE c = "0" -> 0 [] c = "1" -> 1 [] c = "2" -> 2 [] c = "3" -> 3
      [] c = "4" -> 4 [] c = "5" -> 5 [] c = "6" -> 6 [] c = "7" -> 7
      [] c = "8" -> 8 [] c = "9" -> 9

IsDigits(s) ==
    /\ Len(s) > 0
    /\ \A i \in 1..Len(s) :
          Char(s, i) \in {"0", "1", "2", "3", "4", "5", "6", "7", "8", "9"}

RECURSIVE ParseNat(_)
ParseNat(s) ==
    IF s = "" THEN 0
    ELSE 10 * ParseNat(SubSeq(s, 1, Len(s) - 1)) + Digit(Char(s, Len(s)))

\* a signed decimal integer literal
IsInt(s) == /\ s # ""
            /\ IF Char(s, 1) = "-" THEN IsDigits(SubSeq(s, 2, Len(s)))
                                   ELSE IsDigits(s)

ParseInt(s) == IF Char(s, 1) = "-" THEN -ParseNat(SubSeq(s, 2, Len(s)))
               ELSE ParseNat(s)

\* a float literal of the form <int> or <int>e<int>
IsFloat(s) ==
    LET i == Find(s, "e", 1)
    IN  IF i = 0 THEN IsInt(s)
        ELSE IsInt(SubSeq(s, 1, i - 1)) /\ IsInt(SubSeq(s, i + 1, Len(s)))

ParseFloat(s) ==
    LET i == Find(s, "e", 1)
    IN  IF i = 0 THEN Num(ParseInt(s), 0)
        ELSE Num(ParseInt(SubSeq(s, 1, i - 1)),
                 ParseInt(SubSeq(s, i + 1, Len(s))))

\* the value of one operand of a factor expression
Operand(tok) ==
    CASE tok = "MU_0" -> MU_0
      [] tok = "MU_B" -> MU_B
      [] OTHER        -> ParseFloat(tok)

RECURSIVE Product(_)
Product(toks) ==
    IF Len(toks) = 0 THEN One
    ELSE Mul(Product(SubSeq(toks, 1, Len(toks) - 1)), Operand(toks[Len(toks)]))

\* eval(expr) for an expression "x * y * ..." over literals, MU_0 and MU_B
Eval(expr) == Product(Split(expr, " * "))

---------------------------------------------------------------------------
(* Comparison of a float with a power of ten                               *)

\* the sign of A * 10^k - B, for integers A, B >= 1 below 2^31
RECURSIVE CmpScaled(_, _, _)
CmpScaled(A, k, B) ==
    IF k < 0 THEN -CmpScaled(B, -k, A)
    ELSE IF k >= 10 THEN 1
    ELSE LET q == B \div Pow10(k)
             r == B % Pow10(k)
         IN  IF A > q THEN 1
             ELSE IF A < q THEN -1
             ELSE IF r = 0 THEN 0 ELSE -1

\* the sign of x - 10^t
Cmp10(x, t) ==
    IF x.n <= 0 THEN -1
    ELSE CASE x.m0 = 0 /\ x.mb = 0 ->
                CmpScaled(x.n, x.e - t, x.d)
           [] x.m0 = 1 /\ x.mb = 0 ->
                CmpScaled(x.n * MU_0_digits, x.e + MU_0_exp - t, x.d)
           [] x.m0 = -1 /\ x.mb = 0 ->
                CmpScaled(x.n, x.e - MU_0_exp - t, x.d * MU_0_digits)
           [] x.m0 = 0 /\ x.mb = 1 ->
                CmpScaled(x.n * MU_B_digits, x.e + MU_B_exp - t, x.d)
           [] x.m0 = 0 /\ x.mb = -1 ->
                CmpScaled(x.n, x.e - MU_B_exp - t, x.d * MU_B_digits)

\* 1e3 >= conv >= 1e-3
InFixedRange(conv) == Cmp10(conv, 3) <= 0 /\ Cmp10(conv, -3) >= 0

---------------------------------------------------------------------------
(* Python values                                                           *)

None == [tag |-> "None"]
Float(x) == [tag |-> "float", v |-> x]
NdArray(xs) == [tag |-> "ndarray", v |-> xs]

\* Times that scales the first element of an array into every position
TimesFirstElement(number, k) ==
    IF number.tag = "ndarray"
    THEN NdArray([i \in DOMAIN number.v |-> Mul(number.v[1], k)])
    ELSE Float(Mul(number.v, k))

\* number * k and number / k, broadcast over the elements of an array
Times(number, k) ==
    IF number.tag = "ndarray"
    THEN NdArray([i \in DOMAIN number.v |-> Mul(number.v[i], k)])
    ELSE Float(Mul(number.v, k))

Over(number, k) ==
    IF number.tag = "ndarray"
    THEN NdArray([i \in DOMAIN number.v |-> Div(number.v[i], k)])
    ELSE Float(Div(number.v, k))

---------------------------------------------------------------------------
(* convert_unit                                                            *)

Line(text) == [text |-> text, fmt |-> "", val |-> None]

UnitErrorBanner == Line("\n*****Unit Error in convert_unit()*****")

\* the first two if/elif/else blocks of convert_unit: the base unit and the
\* prefactor expression of a unit string; which is "Start" or "End"
ResolveUnit(unit, which) ==
    IF unit \in units
    THEN [fault |-> "none", u |-> unit, scale |-> "1", printed |-> <<>>]
    ELSE IF unit = ""
    THEN \* unit[0] of the empty string
         [fault |-> "IndexError", u |-> "", scale |-> "1", printed |-> <<>>]
    ELSE IF /\ Char(unit, 1) \in DOMAIN factors
            /\ SubSeq(unit, 2, Len(unit)) \in units
    THEN [fault |-> "none", u |-> SubSeq(unit, 2, Len(unit)),
          scale |-> factors[Char(unit, 1)], printed |-> <<>>]
    ELSE [fault |-> "none", u |-> "", scale |-> "1",
          printed |-> <<UnitErrorBanner,
                        Line(which \o " unit not recognised!")>>]

\* Lookup with the reverse entry applied without inverting its factor
LookupReverseNotInverted(number, s_u, pre, e_u, post) ==
    LET key     == s_u \o "_" \o e_u
        key_alt == e_u \o "_" \o s_u
    IN  IF key \in DOMAIN convmag
        THEN Over(Times(Times(number, Eval(pre)), Eval(convmag[key])),
                  Eval(post))
        ELSE IF key_alt \in DOMAIN convmag
        THEN Over(Times(Times(number, Eval(pre)), Eval(convmag[key_alt])),
                  Eval(post))
        ELSE None

\* Lookup that never tries the reverse key
LookupForwardOnly(number, s_u, pre, e_u, post) ==
    LET key == s_u \o "_" \o e_u
    IN  IF key \in DOMAIN convmag
        THEN Over(Times(Times(number, Eval(pre)), Eval(convmag[key])),
                  Eval(post))
        ELSE None

\* the try/except blocks: the converted value, None if neither key exists
Lookup(number, s_u, pre, e_u, post) ==
    LET key     == s_u \o "_" \o e_u
        key_alt == e_u \o "_" \o s_u
    IN  IF key \in DOMAIN convmag
        THEN Over(Times(Times(number, Eval(pre)), Eval(convmag[key])),
                  Eval(post))
        ELSE IF key_alt \in DOMAIN convmag
        THEN Over(Times(Times(number, Eval(pre)),
                        Recip(Eval(convmag[key_alt]))),
                  Eval(post))
        ELSE None

\* the format chosen by the verbose branch for a float
FormatOf(conv) == IF InFixedRange(conv) THEN ".5f" ELSE ".5e"

\* the verbose branch and the return, given the lines printed so far and
\* the value of conv
Report(startunit, endunit, verbose, sofar, conv) ==
    IF verbose /\ conv.tag = "ndarray"
    THEN \* the chained comparison of an array, or its format spec
         [conv |-> None, printed |-> sofar,
          fault |-> IF Len(conv.v) > 1 THEN "ValueError" ELSE "TypeError"]
    ELSE IF verbose /\ conv.tag = "float"
    THEN [conv |-> conv,
          printed |-> sofar \o
             <<[text |-> "{number} " \o startunit \o " = {conv} " \o endunit,
                fmt |-> FormatOf(conv.v), val |-> conv]>>,
          fault |-> "none"]
    ELSE [conv |-> conv, printed |-> sofar, fault |-> "none"]

\* the innermost except branch: the line printed when neither key exists
NotAvailable(startunit, endunit, s_u, e_u, conv) ==
    IF conv.tag = "None" /\ s_u \in units /\ e_u \in units
    THEN <<UnitErrorBanner,
           Line("Conversion not available: " \o startunit \o " to "
                \o endunit)>>
    ELSE <<>>

\* the body of convert_unit after the two unit strings are resolved
Converted(startunit, endunit, verbose, st, en, conv) ==
    IF st.fault # "none"
    THEN [conv |-> None, printed |-> <<>>, fault |-> st.fault]
    ELSE IF en.fault # "none"
    THEN [conv |-> None, printed |-> st.printed, fault |-> en.fault]
    ELSE Report(startunit, endunit, verbose,
                st.printed \o en.printed
                   \o NotAvailable(startunit, endunit, st.u, en.u, conv),
                conv)

Resolved(number, startunit, endunit, verbose, st, en) ==
    Converted(startunit, endunit, verbose, st, en,
              Lookup(number, st.u, st.scale, en.u, en.scale))

\* the outcome of one call: the value returned, the lines printed and the
\* exception raised ("none" if the call returned)
convert_unit(number, startunit, endunit, verbose) ==
    Resolved(number, startunit, endunit, verbose,
             ResolveUnit(startunit, "Start"), ResolveUnit(endunit, "End"))

---------------------------------------------------------------------------
(* Unit cell volume, moment and polarisation                               *)

\* vol is bound only in the two branches; return vol raises otherwise
calculate_unitcell_volume(a, b, c, gamma) ==
    IF gamma = Num(90, 0)
    THEN [vol |-> Float(Mul(Mul(a, b), c)), fault |-> "none"]
    ELSE IF gamma = Num(120, 0)
    THEN [vol |-> Float(Mul(Mul(Num(866, -3), Mul(a, a)), c)),
          fault |-> "none"]
    ELSE [vol |-> None, fault |-> "UnboundLocalError"]

muB_per_fu_to_Tesla(muB_per_fu, num_fu, vol) ==
    IF vol = Zero
    THEN \* moment / vol
         [polarisation |-> None, fault |-> "ZeroDivisionError"]
    ELSE [polarisation |->
             Float(Mul(Div(Mul(Mul(muB_per_fu, num_fu), MU_B), vol), MU_0)),
          fault |-> "none"]

\* Tesla_to_muB_per_fu dividing by MU_B alone
Tesla_to_muB_per_fu_without_num_fu(polarisation, num_fu, vol) ==
    [muB_per_fu |-> Float(Div(Mul(Div(polarisation, MU_0), vol), MU_B)),
     fault |-> "none"]

Tesla_to_muB_per_fu(polarisation, num_fu, vol) ==
    IF Mul(num_fu, MU_B) = Zero
    THEN \* moment / (num_fu * MU_B)
         [muB_per_fu |-> None, fault |-> "ZeroDivisionError"]
    ELSE [muB_per_fu |->
             Float(Div(Mul(Div(polarisation, MU_0), vol),
                       Mul(num_fu, MU_B))),
          fault |-> "none"]

---------------------------------------------------------------------------
(* main: one pass of the interactive loop                                  *)

version == "0.0.4"

RECURSIVE Join(_, _)
Join(strs, sep) ==
    IF Len(strs) = 0 THEN ""
    ELSE IF Len(strs) = 1 THEN strs[1]
    ELSE strs[1] \o sep \o Join(Tail(strs), sep)

RECURSIVE Spaces(_)
Spaces(k) == IF k <= 0 THEN "" ELSE " " \o Spaces(k - 1)

\* f"{s:>{w}}" and f"{s:<{w}}"
RJust(s, w) == Spaces(w - Len(s)) \o s
LJust(s, w) == s \o Spaces(w - Len(s))

\* the lines printed before the loop
MainBanner ==
    << Line("convmag " \o version \o "\n"),
       Line("*****Conversion between magnetic units.*****"),
       Line("\nAt the 'Input:' promt, enter:"),
       Line("[value startunit endunit] e.g. 6 T A/m,"),
       Line("[units] to list the available units,"),
       Line("[conv] to list the conversion factors or"),
       Line("[q] to quit.") >>

\* r == "units"; the order in which the set units is joined is not fixed
MainUnitsLines ==
    << Line("\nThe base units available for conversion are:"),
       [text |-> "{units}\nmuB/fu", fmt |-> "", val |-> units],
       Line("\nThe prefactors available for any base unit are: "
            \o Join(prefactors, ", ")) >>

\* r == "conv"
MainConvLines ==
    LET lgst == CHOOSE w \in {Len(u) : u \in units} :
                   \A u \in units : Len(u) <= w
        row(i) ==
            LET k  == convmag_items[i][1]
                St == Split(k, "_")[1]
                En == Split(k, "_")[2]
            IN  Line(RJust(St, lgst) \o "  <->  " \o LJust(En, lgst)
                     \o ":    " \o convmag[k])
    IN  << Line("\nThe conversions between base units available are:") >>
        \o [i \in DOMAIN convmag_items |-> row(i)]
        \o << Line(RJust("muB/fu", lgst) \o "  <->  " \o LJust("T", lgst)
                   \o ":    requires user input"),
              Line("\nINFO: the factors given above are for the forward conversion"),
              Line("INFO: permeability of free space, MU_0 = 4 * 3.14159 * 1e-7 H/m (== Vs/Am)"),
              Line("INFO: Bohr magneton, MU_B =  9.274015e-24 Am^2"),
              Line("      (muB is the unit string for conversions with Bohr magnetons)"),
              Line("INFO: prefactors available for any base unit: "
                   \o Join(prefactors, ", ")) >>

\* float(toks[i - 1])
FloatAt(toks, i) ==
    IF Len(toks) < i THEN [fault |-> "IndexError", v |-> Zero]
    ELSE IF ~IsFloat(toks[i]) THEN [fault |-> "ValueError", v |-> Zero]
    ELSE [fault |-> "none", v |-> ParseFloat(toks[i])]

Raised(name, lines) == [result |-> None, printed |-> lines, fault |-> name]

\* the lines printed on the way through the muB/fu <-> T branch
MomentLines1 ==
    << Line("\n***INFO: muB per formula unit <-> T***\n"),
       Line("Please enter lattice parameters: a b c in Angstrom") >>

MomentLines2 ==
    MomentLines1
       \o << Line("\nLimited to orthogonal or hexagonal unit cells:") >>

MomentLines3 ==
    MomentLines2
       \o << Line("Please enter the number of formula units per unit cell:") >>

\* the last print of the branch, or the exception of the function called
MomentReport(text, value, raised) ==
    IF raised # "none" THEN Raised(raised, MomentLines3)
    ELSE [result |-> value,
          printed |-> MomentLines3
                         \o <<[text |-> text, fmt |-> ".5f", val |-> value]>>,
          fault |-> "none"]

MomentToTesla(r) ==
    MomentReport("\n{val} muB per f.u. = {Tesla} T ({num_fu:d} f.u./unit cell, cell volume = {vol:.3e} m^3)",
                 r.polarisation, r.fault)

TeslaToMoment(r) ==
    MomentReport("\n{val} T = {muB_fu} muB per f.u. ({num_fu:d} f.u./unit cell, cell volume = {vol:.3e} m^3)",
                 r.muB_per_fu, r.fault)

\* from vol = vol * (1E-10)**3 on
MomentVolume(val, startunit, fu, cell) ==
    IF cell.fault # "none" THEN Raised(cell.fault, MomentLines2)
    ELSE IF ~IsInt(fu) THEN Raised("ValueError", MomentLines3)
    ELSE IF startunit = "muB/fu"
    THEN MomentToTesla(muB_per_fu_to_Tesla(val, ParseFloat(fu),
                                           Mul(cell.vol.v, Num(1, -30))))
    ELSE IF startunit = "T"
    THEN TeslaToMoment(Tesla_to_muB_per_fu(val, ParseFloat(fu),
                                           Mul(cell.vol.v, Num(1, -30))))
    ELSE [result |-> None, printed |-> MomentLines3, fault |-> "none"]

\* the if/elif on the string gamma: vol stays unbound in any other case
MomentCell(a, b, c, gamma) ==
    IF gamma = "120"
    THEN calculate_unitcell_volume(a, b, c, Num(120, 0))
    ELSE IF gamma = "90"
    THEN calculate_unitcell_volume(a, b, c, Num(90, 0))
    ELSE [vol |-> None, fault |-> "UnboundLocalError"]

MomentLattice(val, startunit, gamma, fu, a, b, c) ==
    IF a.fault # "none" THEN Raised(a.fault, MomentLines1)
    ELSE IF b.fault # "none" THEN Raised(b.fault, MomentLines1)
    ELSE IF c.fault # "none" THEN Raised(c.fault, MomentLines1)
    ELSE MomentVolume(val, startunit, fu, MomentCell(a.v, b.v, c.v, gamma))

\* the branch of main for muB/fu <-> T, from the prompt for a b c on
MainMomentPath(val, startunit, lp, gamma, fu) ==
    MomentLattice(val, startunit, gamma, fu,
                  FloatAt(Split(lp, " "), 1), FloatAt(Split(lp, " "), 2),
                  FloatAt(Split(lp, " "), 3))

\* val, startunit and endunit of an input line that is not a command
WordsOf(toks, val) ==
    IF val.fault # "none" THEN [fault |-> val.fault]
    ELSE IF Len(toks) < 3 THEN [fault |-> "IndexError"]
    ELSE [fault |-> "none", val |-> val.v, startunit |-> toks[2],
          endunit |-> toks[3]]

MainWords(r) == WordsOf(Split(r, " "), FloatAt(Split(r, " "), 1))

IsMomentRequest(w) ==
    /\ w.fault = "none"
    /\ "muB/fu" \in {w.startunit, w.endunit}
    /\ "T" \in {w.startunit, w.endunit}

---------------------------------------------------------------------------
(* Inputs                                                                  *)

Prefixed == {p \o u : p \in DOMAIN factors, u \in units}

\* strings that are neither a base unit nor a prefix and a base unit
BadUnits == {"", "Z", "m", "uB", "mZ", "kmT", "T_G"}

UnitStrings == units \cup Prefixed \cup BadUnits

\* the floats k and k / 10
Scalars == {Float(Num(k, j)) : k \in -MaxNum..MaxNum, j \in {-1, 0}}

ArrayValues == {Num(1, 0), Num(2, 0), Num(10, 0)}

Arrays == {NdArray(xs) : xs \in UNION {[1..l -> ArrayValues] : l \in 1..MaxLen}}

BatchUnitStrings == units \cup {"mT", "kA/m", "µemu", "", "Z"}

Lattice == {Num(k, 0) : k \in 1..MaxLattice}

Gammas == {Num(90, 0), Num(120, 0), Num(60, 0), Num(0, 0)}

FormulaUnits == {Num(k, 0) : k \in 0..MaxFu}

\* cell volumes in m^3: those of the lattices above, and 0
Volumes ==
    {Zero} \cup
    {Mul(calculate_unitcell_volume(a, b, c, g).vol.v, Num(1, -30)) :
        a \in Lattice, b \in Lattice, c \in Lattice,
        g \in {Num(90, 0), Num(120, 0)}}

Moments == {x.v : x \in Scalars}

\* lines typed at the prompts of main
InputLines == {"q", "units", "conv", "1 T G", "-2 G Oe", "1 Z T",
               "1 muB/fu G", "6 T", "x T G", "",
               "1 muB/fu T", "-2 muB/fu T", "1 T muB/fu", "2 T muB/fu"}

LatticeLines == {"1 1 1", "2 1 2", "4 4 6", "5 5 5", "5 5", "a b c"}

GammaLines == {"90", "120", "60", ""}

FormulaUnitLines == {"1", "2", "0", "two"}

NotRead == "(not read)"

---------------------------------------------------------------------------
(* State                                                                   *)

VARIABLES
    pc,         \* "call": a call is about to be made; "return": it has ended;
                \* "prompt": main waits for input; "exit", "crash": main ended
    op,         \* the function called
    args,       \* its arguments (for main: the lines read in the last pass)
    result,     \* the value it returned (None while pending or on a fault)
    printed,    \* the lines it printed
    fault,      \* the exception that ended it, "none" if it returned
    prev,       \* the call whose result was passed to this one, or NoCall
    CONVERTING  \* the loop flag of main (FALSE while main is not running)

vars == <<pc, op, args, result, printed, fault, prev, CONVERTING>>

NoCall == [op |-> "none"]

Pending(o, a) ==
    /\ pc = "call"
    /\ op = o
    /\ args = a
    /\ result = None
    /\ printed = <<>>
    /\ fault = "none"
    /\ prev = NoCall
    /\ CONVERTING = FALSE

ConvertArgs(numbers, strings) ==
    [number : numbers, startunit : strings, endunit : strings,
     verbose : BOOLEAN]

\* main has printed its banner and waits at the first prompt
MainStarted ==
    /\ pc = "prompt"
    /\ op = "main"
    /\ args = [r |-> NotRead, lp |-> NotRead, gamma |-> NotRead,
               num_fu |-> NotRead]
    /\ result = None
    /\ printed = MainBanner
    /\ fault = "none"
    /\ prev = NoCall
    /\ CONVERTING = TRUE

Init ==
    \/ \E a \in ConvertArgs(Scalars, UnitStrings) :
          Pending("convert_unit", a)
    \/ \E a \in ConvertArgs(Arrays, BatchUnitStrings) :
          Pending("convert_unit", a)
    \/ \E a \in [a : Lattice, b : Lattice, c : Lattice, gamma : Gammas] :
          Pending("calculate_unitcell_volume", a)
    \/ \E a \in [muB_per_fu : Moments, num_fu : FormulaUnits, vol : Volumes] :
          Pending("muB_per_fu_to_Tesla", a)
    \/ \E a \in [polarisation : Moments, num_fu : FormulaUnits,
                 vol : Volumes] :
          Pending("Tesla_to_muB_per_fu", a)
    \/ MainStarted

\* the call ends with the outcome r of convert_unit
ConvertUnitEnds(r) ==
    /\ result' = r.conv
    /\ printed' = r.printed
    /\ fault' = r.fault

\* a call of convert_unit runs to its end
ConvertUnit ==
    /\ pc = "call"
    /\ op = "convert_unit"
    /\ ConvertUnitEnds(convert_unit(args.number, args.startunit,
                                    args.endunit, args.verbose))
    /\ pc' = "return"
    /\ UNCHANGED <<op, args, prev, CONVERTING>>

\* the value returned is converted back: convert_unit(conv, endunit, startunit)
ConvertBack ==
    /\ pc = "return"
    /\ op = "convert_unit"
    /\ prev = NoCall
    /\ fault = "none"
    /\ result.tag # "None"
    /\ args' = [number |-> result, startunit |-> args.endunit,
                endunit |-> args.startunit, verbose |-> args.verbose]
    /\ ConvertUnitEnds(convert_unit(result, args.endunit, args.startunit,
                                    args.verbose))
    /\ prev' = [op |-> op, args |-> args, result |-> result]
    /\ UNCHANGED <<pc, op, CONVERTING>>

\* the value returned is converted on to a third base unit:
\* convert_unit(conv, endunit, thirdunit)
ConvertOnward ==
    /\ pc = "return"
    /\ op = "convert_unit"
    /\ prev = NoCall
    /\ fault = "none"
    /\ result.tag # "None"
    /\ \E thirdunit \in units \ {args.startunit} :
          /\ args' = [number |-> result, startunit |-> args.endunit,
                      endunit |-> thirdunit, verbose |-> args.verbose]
          /\ ConvertUnitEnds(convert_unit(result, args.endunit, thirdunit,
                                          args.verbose))
    /\ prev' = [op |-> op, args |-> args, result |-> result]
    /\ UNCHANGED <<pc, op, CONVERTING>>

\* the call ends with the value and the exception given
CallEnds(value, raised) ==
    /\ result' = value
    /\ fault' = raised
    /\ UNCHANGED printed

CalculateUnitcellVolumeEnds(r) == CallEnds(r.vol, r.fault)
MuBPerFuToTeslaEnds(r) == CallEnds(r.polarisation, r.fault)
TeslaToMuBPerFuEnds(r) == CallEnds(r.muB_per_fu, r.fault)

CalculateUnitcellVolume ==
    /\ pc = "call"
    /\ op = "calculate_unitcell_volume"
    /\ CalculateUnitcellVolumeEnds(
          calculate_unitcell_volume(args.a, args.b, args.c, args.gamma))
    /\ pc' = "return"
    /\ UNCHANGED <<op, args, prev, CONVERTING>>

MuBPerFuToTesla ==
    /\ pc = "call"
    /\ op = "muB_per_fu_to_Tesla"
    /\ MuBPerFuToTeslaEnds(
          muB_per_fu_to_Tesla(args.muB_per_fu, args.num_fu, args.vol))
    /\ pc' = "return"
    /\ UNCHANGED <<op, args, prev, CONVERTING>>

TeslaToMuBPerFu ==
    /\ pc = "call"
    /\ op = "Tesla_to_muB_per_fu"
    /\ TeslaToMuBPerFuEnds(
          Tesla_to_muB_per_fu(args.polarisation, args.num_fu, args.vol))
    /\ pc' = "return"
    /\ UNCHANGED <<op, args, prev, CONVERTING>>

\* the polarisation returned is converted back with the same num_fu and vol
PolarisationBack ==
    /\ pc = "return"
    /\ op = "muB_per_fu_to_Tesla"
    /\ prev = NoCall
    /\ fault = "none"
    /\ args' = [polarisation |-> result.v, num_fu |-> args.num_fu,
                vol |-> args.vol]
    /\ TeslaToMuBPerFuEnds(
          Tesla_to_muB_per_fu(result.v, args.num_fu, args.vol))
    /\ op' = "Tesla_to_muB_per_fu"
    /\ prev' = [op |-> op, args |-> args, result |-> result]
    /\ UNCHANGED <<pc, CONVERTING>>

AtPrompt == pc = "prompt" /\ CONVERTING

\* what a pass of the loop leaves behind
MainPass(r, lp, gamma, fu, out) ==
    /\ args' = [r |-> r, lp |-> lp, gamma |-> gamma, num_fu |-> fu]
    /\ result' = out.result
    /\ printed' = out.printed
    /\ fault' = out.fault
    /\ pc' = IF out.fault = "none" THEN "prompt" ELSE "crash"
    /\ UNCHANGED <<op, prev, CONVERTING>>

\* r == "q"
MainQuit ==
    /\ AtPrompt
    /\ CONVERTING' = FALSE
    /\ pc' = "exit"
    /\ args' = [r |-> "q", lp |-> NotRead, gamma |-> NotRead,
                num_fu |-> NotRead]
    /\ result' = None
    /\ printed' = <<>>
    /\ UNCHANGED <<op, fault, prev>>

\* r == "units"
MainUnits ==
    /\ AtPrompt
    /\ MainPass("units", NotRead, NotRead, NotRead,
                [result |-> None, printed |-> MainUnitsLines,
                 fault |-> "none"])

\* r == "conv"
MainConv ==
    /\ AtPrompt
    /\ MainPass("conv", NotRead, NotRead, NotRead,
                [result |-> None, printed |-> MainConvLines,
                 fault |-> "none"])

\* a pass through the muB/fu <-> T branch: a prompt is read only if the
\* pass got as far
MainMomentPass(r, lp, gamma, fu, out) ==
    MainPass(r, lp,
             IF Len(out.printed) < 3 THEN NotRead ELSE gamma,
             IF Len(out.printed) < 4 THEN NotRead ELSE fu,
             out)

MainMomentWith(r, w) ==
    /\ IsMomentRequest(w)
    /\ \E lp \in LatticeLines, gamma \in GammaLines, fu \in FormulaUnitLines :
          MainMomentPass(r, lp, gamma, fu,
                         MainMomentPath(w.val, w.startunit, lp, gamma, fu))

\* any other line that asks for muB/fu <-> T
MainMoment ==
    /\ AtPrompt
    /\ \E r \in InputLines \ {"q", "units", "conv"} :
          MainMomentWith(r, MainWords(r))

MainConvertUnitEnds(r, c) ==
    MainPass(r, NotRead, NotRead, NotRead,
             [result |-> c.conv, printed |-> c.printed, fault |-> c.fault])

MainConvertUnitWith(r, w) ==
    /\ ~IsMomentRequest(w)
    /\ IF w.fault # "none"
       THEN MainPass(r, NotRead, NotRead, NotRead, Raised(w.fault, <<>>))
       ELSE MainConvertUnitEnds(r, convert_unit(Float(w.val), w.startunit,
                                                w.endunit, TRUE))

\* any other line: convert_unit(val, startunit, endunit, verbose=True)
MainConvertUnit ==
    /\ AtPrompt
    /\ \E r \in InputLines \ {"q", "units", "conv"} :
          MainConvertUnitWith(r, MainWords(r))

Next ==
    \/ ConvertUnit
    \/ ConvertBack
    \/ ConvertOnward
    \/ CalculateUnitcellVolume
    \/ MuBPerFuToTesla
    \/ TeslaToMuBPerFu
    \/ PolarisationBack
    \/ MainQuit
    \/ MainUnits
    \/ MainConv
    \/ MainMoment
    \/ MainConvertUnit

Spec == Init /\ [][Next]_vars

---------------------------------------------------------------------------
(* Vocabulary of the properties                                            *)

PrefixSymbols == {"M", "k", "m", "µ"}

PrefixScale == [p \in PrefixSymbols |->
                  CASE p = "M" -> Num(1, 6)
                    [] p = "k" -> Num(1, 3)
                    [] p = "m" -> Num(1, -3)
                    [] p = "µ" -> Num(1, -6)]

\* a base unit, or one known prefix character followed by a base unit
IsUnitString(str) ==
    \/ str \in units
    \/ /\ str # ""
       /\ Char(str, 1) \in PrefixSymbols
       /\ SubSeq(str, 2, Len(str)) \in units

\* the base unit and the scale a valid unit string stands for
BaseOf(str) == IF str \in units THEN str ELSE SubSeq(str, 2, Len(str))
ScaleOf(str) == IF str \in units THEN One ELSE PrefixScale[Char(str, 1)]

InTable(s, e) == (s \o "_" \o e) \in DOMAIN convmag
FactorOf(s, e) == Eval(convmag[s \o "_" \o e])

\* one table entry joins the two units, in either direction
Adjacent(s, e) == InTable(s, e) \/ InTable(e, s)

\* the units joined to a unit of S by a chain of table entries
RECURSIVE Family(_)
Family(S) ==
    LET T == S \cup {v \in units : \E u \in S : Adjacent(u, v)}
    IN  IF T = S THEN S ELSE Family(T)

Connected(s, e) == e \in Family({s})

Returned(o) == pc = "return" /\ op = o

Says(text) == \E i \in DOMAIN printed : printed[i].text = text

NotAvailableSaid ==
    Says("Conversion not available: " \o args.startunit \o " to "
         \o args.endunit)

BothValid == IsUnitString(args.startunit) /\ IsUnitString(args.endunit)

---------------------------------------------------------------------------
(* C1 *)

\* C1: for valid unit strings resolving to (s_u, pre) and (e_u, post), a
\* scalar x is converted to x * pre * F / post when (s_u, e_u) is in the
\* table with factor F, and otherwise to x * pre * (1 / F_rev) / post when
\* (e_u, s_u) is in the table with factor F_rev; 1 T is 1e4 G and 1 A/m is
\* MU_0 T.
C1_ConversionFormula ==
    (Returned("convert_unit") /\ args.number.tag = "float" /\ BothValid) =>
        LET x    == args.number.v
            s_u  == BaseOf(args.startunit)
            e_u  == BaseOf(args.endunit)
            pre  == ScaleOf(args.startunit)
            post == ScaleOf(args.endunit)
        IN  /\ InTable(s_u, e_u) =>
                /\ fault = "none"
                /\ result = Float(Div(Mul(Mul(x, pre), FactorOf(s_u, e_u)),
                                      post))
            /\ (~InTable(s_u, e_u) /\ InTable(e_u, s_u)) =>
                /\ fault = "none"
                /\ result = Float(Div(Mul(Mul(x, pre),
                                          Recip(FactorOf(e_u, s_u))), post))
            /\ (x = One /\ args.startunit = "T" /\ args.endunit = "G") =>
                result = Float(Num(1, 4))
            /\ (x = One /\ args.startunit = "A/m" /\ args.endunit = "T") =>
                result = Float(MU_0)

\* 1 kG is 100 mT: prefixes on both sides and the reverse of the entry T_G
C1_Witness ==
    /\ Returned("convert_unit")
    /\ args.number = Float(One)
    /\ args.startunit = "kG"
    /\ args.endunit = "mT"
    /\ result = Float(Num(1, 2))

---------------------------------------------------------------------------
(* C2 *)

\* C2: a unit string, the empty string included, that is neither a base unit
\* nor a prefix character followed by a base unit makes convert_unit print
\* the unrecognised-unit diagnostic of its side and return None, without any
\* other fault.
C2_UnrecognisedUnitReported ==
    Returned("convert_unit") =>
        /\ ~IsUnitString(args.startunit) =>
              /\ fault = "none"
              /\ result = None
              /\ Says("Start unit not recognised!")
        /\ ~IsUnitString(args.endunit) =>
              /\ fault = "none"
              /\ result = None
              /\ Says("End unit not recognised!")

---------------------------------------------------------------------------
(* C3 *)

\* C3: "Conversion not available" is printed exactly when both unit strings
\* are valid and neither the directed nor the reverse key is in the table,
\* and then None is returned; when a unit string is not valid, None is
\* returned and the only lines printed are the unrecognised-unit ones.
C3_NotAvailableExactly ==
    Returned("convert_unit") =>
        /\ NotAvailableSaid <=>
              /\ BothValid
              /\ ~Adjacent(BaseOf(args.startunit), BaseOf(args.endunit))
        /\ NotAvailableSaid => (fault = "none" /\ result = None)
        /\ ~BothValid =>
              /\ fault = "none"
              /\ result = None
              /\ Len(printed) > 0
              /\ \A i \in DOMAIN printed :
                    printed[i].text \in {UnitErrorBanner.text,
                                         "Start unit not recognised!",
                                         "End unit not recognised!"}

---------------------------------------------------------------------------
(* C4 *)

\* C4 as stated: "Conversion not available" for two valid base units means
\* that no chain of table entries connects them.
C4_NotAvailableMeansUnrelated ==
    (Returned("convert_unit") /\ BothValid /\ NotAvailableSaid) =>
        ~Connected(BaseOf(args.startunit), BaseOf(args.endunit))

\* C4 as amended: "Conversion not available" for two valid base units means
\* that no single table entry, in either direction, joins them; two units
\* joined by one entry are converted by one call (for an array of numbers,
\* by one call with verbose off).
C4_NotAvailableMeansNoEntry ==
    (Returned("convert_unit") /\ BothValid) =>
        /\ NotAvailableSaid =>
              ~Adjacent(BaseOf(args.startunit), BaseOf(args.endunit))
        /\ (/\ Adjacent(BaseOf(args.startunit), BaseOf(args.endunit))
            /\ (args.number.tag = "float" \/ ~args.verbose)) =>
              (fault = "none" /\ result.tag # "None" /\ ~NotAvailableSaid)

\* emu/cm^3 and G are joined through T, and the call still fails
C4_Witness ==
    /\ Returned("convert_unit")
    /\ args.startunit = "emu/cm^3"
    /\ args.endunit = "G"
    /\ Connected("emu/cm^3", "G")
    /\ NotAvailableSaid
    /\ result = None

---------------------------------------------------------------------------
(* C5 *)

\* the three numbers typed at the prompt "a b c:" were read
LatticeRead ==
    LET toks == Split(args.lp, " ")
    IN  /\ args.lp # NotRead
        /\ Len(toks) >= 3
        /\ \A i \in 1..3 : IsFloat(toks[i])

\* C5: calculate_unitcell_volume returns a*b*c for gamma = 90 and
\* 0.866*a*a*c for gamma = 120, and for any other gamma it ends in the
\* explicit failure UnsupportedGeometry; so does the muB/fu <-> T branch of
\* main when the gamma typed is neither "90" nor "120".
C5_UnsupportedGeometryExplicit ==
    /\ Returned("calculate_unitcell_volume") =>
          IF args.gamma = Num(90, 0)
          THEN /\ fault = "none"
               /\ result = Float(Mul(args.a, Mul(args.b, args.c)))
          ELSE IF args.gamma = Num(120, 0)
          THEN /\ fault = "none"
               /\ result = Float(Mul(Num(866, -3),
                                     Mul(args.a, Mul(args.a, args.c))))
          ELSE /\ fault = "UnsupportedGeometry"
               /\ result = None
    /\ (op = "main" /\ args.r # NotRead /\ LatticeRead
          /\ args.gamma \notin {"90", "120"}) =>
          fault = "UnsupportedGeometry"

---------------------------------------------------------------------------
(* C6 *)

AbsNum(x) == [x EXCEPT !.n = Abs(x.n)]

FormattedLines == {i \in DOMAIN printed : printed[i].fmt # ""}

\* C6: in verbose mode a scalar result is printed once, in fixed point with
\* 5 decimals when 1e-3 <= |result| <= 1e3 and in scientific notation with 5
\* decimals otherwise; nothing is formatted when no value is returned.
C6_FormatByMagnitude ==
    (Returned("convert_unit") /\ args.verbose /\ args.number.tag = "float"
        /\ fault = "none") =>
        IF result.tag = "None"
        THEN FormattedLines = {}
        ELSE /\ Cardinality(FormattedLines) = 1
             /\ \A i \in FormattedLines :
                   /\ printed[i].val = result
                   /\ printed[i].fmt =
                        IF InFixedRange(AbsNum(result.v)) THEN ".5f"
                                                          ELSE ".5e"

---------------------------------------------------------------------------
(* C7 *)

\* C7: for every directed table entry (s, e) and every x, converting x from
\* s to e and the value obtained back from e to s gives x again; the pair
\* (e, s) is not in the table, so the second call inverts the factor of
\* (s, e).
C7_RoundTrip ==
    (Returned("convert_unit") /\ prev.op = "convert_unit"
        /\ prev.args.startunit \in units /\ prev.args.endunit \in units
        /\ InTable(prev.args.startunit, prev.args.endunit)
        /\ args.endunit = prev.args.startunit) =>
        /\ args.startunit = prev.args.endunit
        /\ args.number = prev.result
        /\ ~InTable(args.startunit, args.endunit)
        /\ fault = "none"
        /\ result = prev.args.number

\* 2 A/m is 2 * MU_0 T, and 2 * MU_0 T is 2 A/m
C7_Witness ==
    /\ Returned("convert_unit")
    /\ prev.op = "convert_unit"
    /\ prev.args.startunit = "A/m"
    /\ prev.args.endunit = "T"
    /\ prev.args.number = Float(Num(2, 0))
    /\ prev.result = Float(Mul(Num(2, 0), MU_0))
    /\ args.startunit = "T"
    /\ args.endunit = "A/m"
    /\ result = Float(Num(2, 0))

---------------------------------------------------------------------------
(* C8 *)

\* C8: for every prefix p with scale f_p and base units A, B joined by a
\* table entry, convert_unit(x, p+A, B) is f_p * convert_unit(x, A, B) and
\* convert_unit(x, A, p+B) is convert_unit(x, A, B) / f_p, also when A
\* itself begins with a prefix character.
C8_PrefixLinearity ==
    (Returned("convert_unit") /\ prev.op = "none"
        /\ args.number.tag = "float"
        /\ args.startunit # "" /\ args.endunit # "") =>
        LET sp == Char(args.startunit, 1)
            sA == SubSeq(args.startunit, 2, Len(args.startunit))
            ep == Char(args.endunit, 1)
            eB == SubSeq(args.endunit, 2, Len(args.endunit))
        IN  /\ (/\ sp \in PrefixSymbols /\ sA \in units
                /\ args.endunit \in units
                /\ Adjacent(sA, args.endunit)) =>
                  /\ fault = "none"
                  /\ result =
                       Float(Mul(PrefixScale[sp],
                                 convert_unit(args.number, sA, args.endunit,
                                              FALSE).conv.v))
            /\ (/\ ep \in PrefixSymbols /\ eB \in units
                /\ args.startunit \in units
                /\ Adjacent(args.startunit, eB)) =>
                  /\ fault = "none"
                  /\ result =
                       Float(Div(convert_unit(args.number, args.startunit,
                                              eB, FALSE).conv.v,
                                 PrefixScale[ep]))

\* 1 mmuB is 1e-3 * MU_B Am^2: the prefix m in front of the base unit muB
C8_Witness ==
    /\ Returned("convert_unit")
    /\ prev.op = "none"
    /\ args.number = Float(One)
    /\ args.startunit = "mmuB"
    /\ args.endunit = "Am^2"
    /\ result = Float(Mul(Num(1, -3), MU_B))

---------------------------------------------------------------------------
(* C9 *)

\* C9: with verbose off, an array converted between two units joined by a
\* table entry gives an array of the same length whose i-th element is the
\* conversion of the i-th element alone; [1, 2, 10] T is [1e4, 2e4, 1e5] G.
C9_BatchElementwise ==
    (Returned("convert_unit") /\ args.number.tag = "ndarray"
        /\ ~args.verbose /\ BothValid
        /\ Adjacent(BaseOf(args.startunit), BaseOf(args.endunit))) =>
        /\ fault = "none"
        /\ result.tag = "ndarray"
        /\ Len(result.v) = Len(args.number.v)
        /\ \A i \in DOMAIN args.number.v :
              result.v[i] =
                 convert_unit(Float(args.number.v[i]), args.startunit,
                              args.endunit, FALSE).conv.v
        /\ (/\ args.number = NdArray(<<Num(1, 0), Num(2, 0), Num(10, 0)>>)
            /\ args.startunit = "T" /\ args.endunit = "G") =>
              result = NdArray(<<Num(1, 4), Num(2, 4), Num(1, 5)>>)

\* [10, 2] mT is [1e-2, 2e-3] / MU_0 A/m
C9_Witness ==
    /\ Returned("convert_unit")
    /\ prev.op = "none"
    /\ ~args.verbose
    /\ args.number = NdArray(<<Num(10, 0), Num(2, 0)>>)
    /\ args.startunit = "mT"
    /\ args.endunit = "A/m"
    /\ result = NdArray(<<Div(Num(1, -2), MU_0), Div(Num(2, -3), MU_0)>>)

---------------------------------------------------------------------------
(* C10 *)

\* C10: muB_per_fu_to_Tesla(m, n, v) is (m * n * MU_B / v) * MU_0, and for
\* n > 0 and v > 0 Tesla_to_muB_per_fu(muB_per_fu_to_Tesla(m, n, v), n, v)
\* is m.
C10_MomentRoundTrip ==
    /\ (Returned("muB_per_fu_to_Tesla") /\ args.vol # Zero) =>
          /\ fault = "none"
          /\ result = Float(Mul(Mul(Div(Mul(args.muB_per_fu, args.num_fu),
                                        args.vol), MU_B), MU_0))
    /\ (Returned("Tesla_to_muB_per_fu") /\ prev.op = "muB_per_fu_to_Tesla"
          /\ args.num_fu.n > 0 /\ args.vol.n > 0) =>
          /\ args.num_fu = prev.args.num_fu
          /\ args.vol = prev.args.vol
          /\ args.polarisation = prev.result.v
          /\ fault = "none"
          /\ result = Float(prev.args.muB_per_fu)

\* -0.2 muB/f.u. with 2 f.u. in a hexagonal cell of 0.866 * 1 * 2 A^3
C10_Witness ==
    /\ Returned("Tesla_to_muB_per_fu")
    /\ prev.op = "muB_per_fu_to_Tesla"
    /\ prev.args.muB_per_fu = Num(-2, -1)
    /\ args.num_fu = Num(2, 0)
    /\ args.vol = Num(1732, -33)
    /\ prev.result.v.m0 = 1
    /\ prev.result.v.mb = 1
    /\ result = Float(Num(-2, -1))

---------------------------------------------------------------------------
(* C11 *)

\* the factor one call applies between two base units joined by an entry
EffectiveFactor(s, e) ==
    IF InTable(s, e) THEN FactorOf(s, e) ELSE Recip(FactorOf(e, s))

\* C11: for base units A, B, C such that each of A to B, B to C and A to C
\* is converted by a direct or an inverted table entry, converting x from A
\* to B and the value obtained from B to C gives what converting x from A
\* to C gives: F(A, C) = F(A, B) * F(B, C) as products of powers of 10,
\* MU_0 and MU_B.
C11_PathConsistency ==
    (Returned("convert_unit") /\ prev.op = "convert_unit"
        /\ prev.args.startunit \in units /\ prev.args.endunit \in units
        /\ args.startunit = prev.args.endunit /\ args.endunit \in units
        /\ Adjacent(prev.args.startunit, prev.args.endunit)
        /\ Adjacent(args.startunit, args.endunit)
        /\ Adjacent(prev.args.startunit, args.endunit)) =>
        /\ fault = "none"
        /\ result = convert_unit(prev.args.number, prev.args.startunit,
                                 args.endunit, FALSE).conv
        /\ EffectiveFactor(prev.args.startunit, args.endunit) =
              Mul(EffectiveFactor(prev.args.startunit, prev.args.endunit),
                  EffectiveFactor(args.startunit, args.endunit))

\* 2 A/m is 2 * MU_0 T, which is 2e4 * MU_0 Oe, as the entry A/m_Oe says
C11_Witness ==
    /\ Returned("convert_unit")
    /\ prev.op = "convert_unit"
    /\ prev.args.number = Float(Num(2, 0))
    /\ prev.args.startunit = "A/m"
    /\ prev.args.endunit = "T"
    /\ prev.result = Float(Mul(Num(2, 0), MU_0))
    /\ args.startunit = "T"
    /\ args.endunit = "Oe"
    /\ InTable("A/m", "Oe")
    /\ result = Float(Mul(Num(2, 4), MU_0))

=============================================================================
